---- MODULE Spec2Model ----
(***************************************************************************)
(* Model of setup2upypackage.pyproject2upypackage.Pyproject2uPyPackage:    *)
(* one reconciler instance, the parsed pyproject.toml it holds, the files  *)
(* it reads and writes, and every public property and method as an action. *)
(*                                                                         *)
(* Python values are modelled as follows:                                  *)
(*   str            a TLA+ string                                          *)
(*   list           a sequence                                             *)
(*   dict           a function whose domain is a set of strings            *)
(*   None           the string "None" (only used for the Optional[Path]s)  *)
(*   an exception   the exc field of a result record, "none" when the      *)
(*                  call returns                                           *)
(*   a text file    a sequence of lexemes whose concatenation is the text  *)
(***************************************************************************)
EXTENDS Integers, Sequences, FiniteSets, TLC

VARIABLES
    setup_data,               \* self._setup_data, the parsed pyproject.toml
    package_file,             \* self._package_file, a path or None
    package_changelog_file,   \* self._package_changelog_file, a path or None
    project_dir,              \* the source files below the project directory, as
                              \* paths relative to it, in the order a scan yields them
    fs,                       \* the manifest files on disk: path -> [exists, text]
    target_loaded,            \* what the first read of package_json_data returned
    last                      \* the most recent operation and its outcome

vars == <<setup_data, package_file, package_changelog_file, project_dir,
          fs, target_loaded, last>>

\* Largest number of source files in the project directory, and of urls
\* entries of a target manifest.
MaxFiles == 2

None == "None"
NoExc == "none"
Sentinel == "-1.-1.-1"

(***************************************************************************)
(* Python str operations                                                   *)
(***************************************************************************)

\* The printable ASCII characters in code point order: 32 (space) to 95 (_),
\* and 97 (a) to 126 (~). Code point 96 is not written here and never occurs.
AsciiLow == " !\"#$%&'()*+,-./0123456789:;<=>?@ABCDEFGHIJKLMNOPQRSTUVWXYZ[\\]^_"
AsciiHigh == "abcdefghijklmnopqrstuvwxyz{|}~"

CharAt(s, i) == SubSeq(s, i, i)

\* ord(c) of every one-character string.
OrdTable ==
    [c \in {CharAt(AsciiLow, i) : i \in 1..Len(AsciiLow)}
           \cup {CharAt(AsciiHigh, i) : i \in 1..Len(AsciiHigh)} |->
        IF \E i \in 1..Len(AsciiLow) : CharAt(AsciiLow, i) = c
        THEN 31 + CHOOSE i \in 1..Len(AsciiLow) : CharAt(AsciiLow, i) = c
        ELSE 96 + CHOOSE i \in 1..Len(AsciiHigh) : CharAt(AsciiHigh, i) = c]

Ord(c) == OrdTable[c]

\* a < b on str: by code point, a proper prefix first.
RECURSIVE StrLessFrom(_, _, _)
StrLessFrom(a, b, i) ==
    IF i > Len(b) THEN FALSE
    ELSE IF i > Len(a) THEN TRUE
    ELSE IF CharAt(a, i) = CharAt(b, i) THEN StrLessFrom(a, b, i + 1)
    ELSE Ord(CharAt(a, i)) < Ord(CharAt(b, i))

StrLess(a, b) == StrLessFrom(a, b, 1)

StartsWithAt(s, i, t) == i + Len(t) - 1 <= Len(s) /\ SubSeq(s, i, i + Len(t) - 1) = t

\* sub in s
RECURSIVE FindFrom(_, _, _)
FindFrom(s, sub, i) ==
    IF i + Len(sub) - 1 > Len(s) THEN 0
    ELSE IF StartsWithAt(s, i, sub) THEN i
    ELSE FindFrom(s, sub, i + 1)

StrContains(sub, s) == FindFrom(s, sub, 1) # 0

\* s.replace(old, new), old not empty
RECURSIVE StrReplace(_, _, _)
StrReplace(s, old, new) ==
    LET i == FindFrom(s, old, 1)
    IN  IF i = 0 THEN s
        ELSE SubSeq(s, 1, i - 1) \o new
             \o StrReplace(SubSeq(s, i + Len(old), Len(s)), old, new)

\* s.split(".")
RECURSIVE StrSplit(_, _)
StrSplit(s, sep) ==
    LET i == FindFrom(s, sep, 1)
    IN  IF i = 0 THEN <<s>>
        ELSE <<SubSeq(s, 1, i - 1)>> \o StrSplit(SubSeq(s, i + Len(sep), Len(s)), sep)

\* sep.join(parts)
RECURSIVE StrJoin(_, _)
StrJoin(sep, parts) ==
    IF Len(parts) = 0 THEN ""
    ELSE IF Len(parts) = 1 THEN parts[1]
    ELSE parts[1] \o sep \o StrJoin(sep, Tail(parts))

\* The str of a path from its parts joined by "/": one leading "/" is kept,
\* and the path without parts is ".".
PathOfParts(absolute, body) ==
    IF absolute THEN "/" \o body
    ELSE IF body = "" THEN "."
    ELSE body

\* str(Path(s)) for a POSIX path without ".." parts: runs of "/" collapse to
\* one, "." parts and a trailing "/" are dropped.
PathStr(s) ==
    PathOfParts(Len(s) > 0 /\ SubSeq(s, 1, 1) = "/",
                StrJoin("/", SelectSeq(StrSplit(s, "/"),
                                       LAMBDA part : part # "" /\ part # ".")))

\* str(Path(a) / b) for a relative b, from str(Path(a)) and str(Path(b))
JoinedPath(pa, pb) ==
    IF pa = "." THEN pb
    ELSE IF pa = "/" THEN "/" \o pb
    ELSE pa \o "/" \o pb

PathJoin(a, b) == JoinedPath(PathStr(a), PathStr(b))

\* The parent of the path with these parts, "" first for an absolute path.
ParentOfParts(parts) ==
    IF Len(parts) = 1 THEN "."
    ELSE IF Len(parts) = 2 /\ parts[1] = "" THEN "/"
    ELSE StrJoin("/", SubSeq(parts, 1, Len(parts) - 1))

\* str(Path(p).parent)
PathParent(p) == ParentOfParts(StrSplit(PathStr(p), "/"))

\* str(Path(p).relative_to(root)) for a p below root, from the two strs
WithoutRoot(pp, pr) ==
    IF pr = "." THEN pp ELSE SubSeq(pp, Len(pr) + 2, Len(pp))

RelativeTo(p, root) == WithoutRoot(PathStr(p), PathStr(root))

\* s.endswith(suffix)
EndsWith(s, suffix) ==
    Len(s) >= Len(suffix) /\ SubSeq(s, Len(s) - Len(suffix) + 1, Len(s)) = suffix

(***************************************************************************)
(* Python dict operations                                                  *)
(***************************************************************************)

EmptyDict == [k \in {} |-> ""]

\* d.get(k, default)
Get(d, k, default) == IF k \in DOMAIN d THEN d[k] ELSE default

\* d.pop(k, None), the dict that is left
Pop(d, k) == [x \in DOMAIN d \ {k} |-> d[x]]

\* d[k] = v, the dict that results
SetItem(d, k, v) == [x \in DOMAIN d \cup {k} |-> IF x = k THEN v ELSE d[x]]

\* The last call on the instance: the operation, its arguments, and what it
\* did (r, as below).
Result(op, arg, r) == [op |-> op, arg |-> arg, exc |-> r.exc, val |-> r.val, aux |-> <<>>]

\* No call has been made, or the caller has taken the result of the last one.
Idle == [op |-> "idle", arg |-> <<>>, exc |-> NoExc, val |-> "", aux |-> <<>>]

\* What a call did: it returned val (exc = NoExc) or raised exc.
Ok(v) == [exc |-> NoExc, val |-> v]
Raise(e) == [exc |-> e, val |-> ""]

(***************************************************************************)
(* json.dumps and json.load on manifests.  A document is the sequence of   *)
(* its lexemes: brackets, commas, colons, quoted strings and whitespace.   *)
(* TLA+ values carry no type tag, so the value under "urls" is written and *)
(* read as a list of lists of str, the one under "deps" as a list of str   *)
(* and any other as a str.  The strings of the model hold no character     *)
(* that JSON escapes.                                                      *)
(***************************************************************************)

Quote(s) == "\"" \o s \o "\""
Unquote(x) == SubSeq(x, 2, Len(x) - 1)
IsStrLexeme(x) == Len(x) >= 2 /\ CharAt(x, 1) = "\"" /\ CharAt(x, Len(x)) = "\""
IsWhitespace(x) == CharAt(x, 1) \in {" ", "\n"}

RECURSIVE Spaces(_)
Spaces(n) == IF n = 0 THEN "" ELSE " " \o Spaces(n - 1)

\* The line break and indentation json.dumps(indent=4) writes at a nesting level.
NewlineIndent(pretty, level) == IF pretty THEN <<"\n" \o Spaces(4 * level)>> ELSE <<>>

\* The separator between two items: "," and a line break, or ", ".
ItemSeparator(pretty, level) ==
    IF pretty THEN <<",">> \o NewlineIndent(pretty, level) ELSE <<",", " ">>

RECURSIVE JoinItems(_, _)
JoinItems(items, sep) ==
    IF Len(items) = 0 THEN <<>>
    ELSE IF Len(items) = 1 THEN items[1]
    ELSE items[1] \o sep \o JoinItems(Tail(items), sep)

\* A container: the empty one is "[]" or "{}", without a line break.
DumpsContainer(open, close, items, pretty, level) ==
    IF Len(items) = 0 THEN <<open, close>>
    ELSE <<open>> \o NewlineIndent(pretty, level + 1)
         \o JoinItems(items, ItemSeparator(pretty, level + 1))
         \o NewlineIndent(pretty, level) \o <<close>>

DumpsStr(s) == <<Quote(s)>>

DumpsStrList(l, pretty, level) ==
    DumpsContainer("[", "]", [i \in 1..Len(l) |-> DumpsStr(l[i])], pretty, level)

DumpsUrls(urls, pretty, level) ==
    DumpsContainer("[", "]",
        [i \in 1..Len(urls) |-> DumpsStrList(urls[i], pretty, level + 1)], pretty, level)

DumpsValue(key, v, pretty, level) ==
    IF key = "urls" THEN DumpsUrls(v, pretty, level)
    ELSE IF key = "deps" THEN DumpsStrList(v, pretty, level)
    ELSE DumpsStr(v)

\* json.dumps(d) or json.dumps(d, indent=4) of a dict whose keys were inserted
\* in the order keys.
Dumps(d, keys, pretty) ==
    DumpsContainer("{", "}",
        [i \in 1..Len(keys) |->
            <<Quote(keys[i]), ":", " ">> \o DumpsValue(keys[i], d[keys[i]], pretty, 1)],
        pretty, 0)

\* A parse step: the value read and the place of the next lexeme, or a failure.
Parsed(v, next) == [ok |-> TRUE, val |-> v, next |-> next]
ParseFail == [ok |-> FALSE, val |-> "", next |-> 0]

LexemeAt(t, i) == IF i \in 1..Len(t) THEN t[i] ELSE "<eof>"

ParseStr(t, i) ==
    IF IsStrLexeme(LexemeAt(t, i)) THEN Parsed(Unquote(t[i]), i + 1) ELSE ParseFail

\* The items of a list of str after its "[", up to and including its "]".
RECURSIVE ParseStrItems(_, _, _)
ParseStrItems(t, i, acc) ==
    LET item == ParseStr(t, i)
    IN  IF ~item.ok THEN ParseFail
        ELSE IF LexemeAt(t, item.next) = ","
             THEN ParseStrItems(t, item.next + 1, Append(acc, item.val))
        ELSE IF LexemeAt(t, item.next) = "]"
             THEN Parsed(Append(acc, item.val), item.next + 1)
        ELSE ParseFail

ParseStrList(t, i) ==
    IF LexemeAt(t, i) # "[" THEN ParseFail
    ELSE IF LexemeAt(t, i + 1) = "]" THEN Parsed(<<>>, i + 2)
    ELSE ParseStrItems(t, i + 1, <<>>)

\* The items of a list of lists of str after its "[", up to and including its "]".
RECURSIVE ParseUrlItems(_, _, _)
ParseUrlItems(t, i, acc) ==
    LET item == ParseStrList(t, i)
    IN  IF ~item.ok THEN ParseFail
        ELSE IF LexemeAt(t, item.next) = ","
             THEN ParseUrlItems(t, item.next + 1, Append(acc, item.val))
        ELSE IF LexemeAt(t, item.next) = "]"
             THEN Parsed(Append(acc, item.val), item.next + 1)
        ELSE ParseFail

ParseUrls(t, i) ==
    IF LexemeAt(t, i) # "[" THEN ParseFail
    ELSE IF LexemeAt(t, i + 1) = "]" THEN Parsed(<<>>, i + 2)
    ELSE ParseUrlItems(t, i + 1, <<>>)

ParseValue(key, t, i) ==
    IF key = "urls" THEN ParseUrls(t, i)
    ELSE IF key = "deps" THEN ParseStrList(t, i)
    ELSE ParseStr(t, i)

\* The members of an object after its "{", up to and including its "}".
RECURSIVE ParseMembers(_, _, _)
ParseMembers(t, i, acc) ==
    LET key == ParseStr(t, i)
        value == ParseValue(key.val, t, i + 2)
    IN  IF ~key.ok \/ LexemeAt(t, i + 1) # ":" THEN ParseFail
        ELSE IF ~value.ok THEN ParseFail
        ELSE IF LexemeAt(t, value.next) = ","
             THEN ParseMembers(t, value.next + 1, SetItem(acc, key.val, value.val))
        ELSE IF LexemeAt(t, value.next) = "}"
             THEN Parsed(SetItem(acc, key.val, value.val), value.next + 1)
        ELSE ParseFail

ParseObject(t) ==
    IF LexemeAt(t, 1) # "{" THEN ParseFail
    ELSE IF LexemeAt(t, 2) = "}" THEN Parsed(EmptyDict, 3)
    ELSE ParseMembers(t, 2, EmptyDict)

\* json.load of a document: the dict, or JSONDecodeError.
Loads(text) ==
    LET t == SelectSeq(text, LAMBDA x : ~IsWhitespace(x))
        obj == ParseObject(t)
    IN  IF obj.ok /\ obj.next = Len(t) + 1 THEN Ok(obj.val) ELSE Raise("JSONDecodeError")

(***************************************************************************)
(* The collaborators outside the class: the module a dynamic version is    *)
(* read from, the changelog parser, setuptools' package paths.             *)
(***************************************************************************)

\* The path of pyproject.toml given at construction, and its directory.  The
\* process runs in that directory: find_namespace_packages(where=".") searches
\* the working directory.
ProjectConfigFile == "/proj/pyproject.toml"

RootDir == PathParent(ProjectConfigFile)

\* What the Python source files of the project hold, by their path relative to
\* RootDir: the version module its __version__, any other file no attribute
\* that is read.
ModuleFiles == [f \in {"w/version.py"} |-> [__version__ |-> "1.2.0"]]

\* The changelog given at construction and the semantic version of its latest entry.
ChangelogFile == "/proj/changelog.md"
ChangelogVersions == [f \in {ChangelogFile} |-> "0.3.0"]

\* The directories above a file of the project directory, outermost first,
\* as package names: "w/sub/x.py" lies in "w" and "w.sub".
RECURSIVE PackagesAbove(_, _)
PackagesAbove(parts, n) ==
    IF n >= Len(parts) THEN <<>>
    ELSE <<StrJoin(".", SubSeq(parts, 1, n))>> \o PackagesAbove(parts, n + 1)

\* seq without the elements that have come before
RECURSIVE Distinct(_)
Distinct(seq) ==
    IF Len(seq) = 0 THEN <<>>
    ELSE LET init == Distinct(SubSeq(seq, 1, Len(seq) - 1))
             x == seq[Len(seq)]
         IN  IF \E i \in 1..Len(init) : init[i] = x THEN init ELSE Append(init, x)

\* setuptools.find_namespace_packages(where=".", include=("*",), exclude=()):
\* every directory below the working directory, as a dotted name, in the
\* order the scan comes upon them.  The directories of the model are those
\* that hold a file of project_dir.
RECURSIVE FindNamespacePackagesFrom(_)
FindNamespacePackagesFrom(files) ==
    IF Len(files) = 0 THEN <<>>
    ELSE PackagesAbove(StrSplit(files[1], "/"), 1) \o FindNamespacePackagesFrom(Tail(files))

FindNamespacePackages == Distinct(FindNamespacePackagesFrom(project_dir))

\* setuptools.discovery.find_package_path(package, {"": search_dir}, root_dir):
\* os.path.join(root_dir, search_dir, *package.split("."))
FindPackagePath(package, search_dir, root_dir) ==
    root_dir \o "/" \o search_dir \o "/" \o StrReplace(package, ".", "/")

\* _find_packages.  No pyproject.toml of the model has tool.setuptools.packages,
\* so packages_setup is {} and the find branch runs with where = ["."].  The
\* dict is the sequence of its items in insertion order.
FindPackages(package_name) ==
    LET search_dir == "."
        packages == IF package_name # None THEN <<package_name>>
                    ELSE FindNamespacePackages
    IN  [i \in 1..Len(packages) |->
            <<packages[i], FindPackagePath(packages[i], search_dir, RootDir)>>]

\* self._root_dir.glob(search_dir) for search_dir = directory/*.py, with the
\* "if x.is_file()" filter: the *.py files of that directory, in scan order.
Glob(directory) ==
    SelectSeq(project_dir,
              LAMBDA x : PathParent(x) = directory /\ EndsWith(x, ".py"))

\* The module executed from a file of the project directory: its attributes,
\* or the error of a missing file.
ModuleAt(file) ==
    IF \A i \in 1..Len(project_dir) : project_dir[i] # file
    THEN Raise("FileNotFoundError")
    ELSE IF file \in DOMAIN ModuleFiles THEN Ok(ModuleFiles[file])
    ELSE Ok(EmptyDict)

\* load_module(source).  The process runs in RootDir, and source lies below it.
LoadModule(source) == ModuleAt(RelativeTo(source, RootDir))

(***************************************************************************)
(* The properties of Pyproject2uPyPackage                                  *)
(***************************************************************************)

\* package_version.  The default of the last get is the str "-1.-1.-1", and
\* version["attr"] on a str raises TypeError.
PackageVersion ==
    LET dynamic == Get(Get(Get(setup_data, "tool", EmptyDict),
                           "setuptools", EmptyDict), "dynamic", EmptyDict)
    IN  IF "version" \notin DOMAIN dynamic THEN Raise("TypeError")
        ELSE LET version == dynamic["version"]
             IN  IF "attr" \notin DOMAIN version THEN Raise("KeyError")
                 ELSE IF version["attr"] # ""
                 THEN LET parts == StrSplit(version["attr"], ".")
                          version_module == StrJoin(".", SubSeq(parts, 1, Len(parts) - 1))
                          version_attr == parts[Len(parts)]
                          package_path == FindPackages(version_module)[1][2]
                          m == LoadModule(package_path \o ".py")
                      IN  IF m.exc # NoExc THEN Raise(m.exc)
                          ELSE IF version_attr \notin DOMAIN m.val
                               THEN Raise("AttributeError")
                          ELSE Ok(m.val[version_attr])
                 ELSE Ok(Sentinel)

\* package_changelog_version
PackageChangelogVersion ==
    IF package_changelog_file # None
    THEN Ok(ChangelogVersions[package_changelog_file])
    ELSE Ok(Sentinel)

\* package_deps
PackageDeps ==
    LET dependencies == Get(Get(setup_data, "project", EmptyDict), "dependencies", <<>>)
    IN  IF Len(dependencies) > 0 THEN Ok(dependencies) ELSE Ok(<<>>)

\* package_url
PackageUrl ==
    LET project == Get(setup_data, "project", EmptyDict)
    IN  IF DOMAIN project # {}
        THEN IF "urls" \notin DOMAIN project THEN Raise("KeyError")
             ELSE IF "Source" \notin DOMAIN project["urls"] THEN Raise("KeyError")
             ELSE Ok(project["urls"]["Source"])
        ELSE Raise("SystemExit")

\* package_files: the *.py files of every package directory, package by
\* package, relative to RootDir.
RECURSIVE PackageFilesFrom(_)
PackageFilesFrom(package_paths) ==
    IF Len(package_paths) = 0 THEN <<>>
    ELSE Glob(RelativeTo(package_paths[1][2], RootDir))
            \o PackageFilesFrom(Tail(package_paths))

PackageFiles == Ok(PackageFilesFrom(FindPackages(None)))

\* data_files
DataFiles == Ok(<<>>)

\* _create_url_elements
CreateUrlElements(package_files, url) ==
    [i \in 1..Len(package_files) |->
        <<PathStr(package_files[i]), PathJoin(url, package_files[i])>>]

\* The order in which package_data inserts its keys.
KeyOrder == <<"urls", "deps", "version">>

\* package_data: the properties are read in this order, and the first that
\* raises ends the call.
PackageData ==
    LET package_files == PackageFiles
        version == IF package_changelog_file # None
                   THEN PackageChangelogVersion ELSE PackageVersion
        install_requires == PackageDeps
        data_files == DataFiles
        package_url == PackageUrl
    IN  IF package_files.exc # NoExc THEN Raise(package_files.exc)
        ELSE IF version.exc # NoExc THEN Raise(version.exc)
        ELSE IF install_requires.exc # NoExc THEN Raise(install_requires.exc)
        ELSE IF package_url.exc # NoExc THEN Raise(package_url.exc)
        ELSE LET url == StrReplace(package_url.val, "https://github.com/", "github:")
                 urls == CreateUrlElements(package_files.val, url)
                         \o CreateUrlElements(data_files.val, url)
             IN  Ok([urls |-> urls, deps |-> install_requires.val,
                     version |-> version.val])

\* open(path, "r") and json.load
ReadJsonFile(path) ==
    IF ~fs[path].exists THEN Raise("FileNotFoundError") ELSE Loads(fs[path].text)

\* package_json_data
PackageJsonData ==
    IF package_file # None THEN ReadJsonFile(package_file)
    ELSE Raise("Setup2uPyPackageError")

(***************************************************************************)
(* validate, validation_diff and create                                    *)
(***************************************************************************)

\* a < b on lists of str, as list.sort() compares the urls entries.
RECURSIVE ListLessFrom(_, _, _)
ListLessFrom(a, b, i) ==
    IF i > Len(b) THEN FALSE
    ELSE IF i > Len(a) THEN TRUE
    ELSE IF a[i] = b[i] THEN ListLessFrom(a, b, i + 1)
    ELSE StrLess(a[i], b[i])

ListLess(a, b) == ListLessFrom(a, b, 1)

\* x put into the sorted list l, after the entries that are not greater.
RECURSIVE InsertSorted(_, _)
InsertSorted(l, x) ==
    IF Len(l) = 0 THEN <<x>>
    ELSE IF ListLess(x, Head(l)) THEN <<x>> \o l
    ELSE <<Head(l)>> \o InsertSorted(Tail(l), x)

\* l.sort()
RECURSIVE ListSort(_)
ListSort(l) ==
    IF Len(l) = 0 THEN <<>> ELSE InsertSorted(ListSort(SubSeq(l, 1, Len(l) - 1)), l[Len(l)])

\* The default of _exclude_package_files' excludes parameter.
DefaultExcludes == <<"boot.py", "main.py">>

\* Mutant of _exclude_package_files: an entry is dropped only when its path
\* equals an exclude, not when it contains one.
ExcludePackageFilesExact(package_files, excludes) ==
    SelectSeq(package_files,
              LAMBDA ele : ~(\E i \in 1..Len(excludes) : excludes[i] = ele[1]))

\* _exclude_package_files
ExcludePackageFiles(package_files, excludes) ==
    SelectSeq(package_files,
              LAMBDA ele : ~(\E i \in 1..Len(excludes) : StrContains(excludes[i], ele[1])))

\* Mutant of the two pops: "elif ignore_deps", so that both flags pop version alone.
PopIgnoredElif(d, ignore_version, ignore_deps) ==
    IF ignore_version THEN Pop(d, "version")
    ELSE IF ignore_deps THEN Pop(d, "deps")
    ELSE d

\* validate, "if ignore_version" and "if ignore_deps": the key is popped.
PopIgnored(d, ignore_version, ignore_deps) ==
    LET d1 == IF ignore_version THEN Pop(d, "version") ELSE d
    IN  IF ignore_deps THEN Pop(d1, "deps") ELSE d1

\* validate, "if ignore_boot_main", on one of the two dicts.
ExcludeBootMain(d, ignore_boot_main) ==
    IF ignore_boot_main
    THEN SetItem(d, "urls", ExcludePackageFiles(Get(d, "urls", <<>>), DefaultExcludes))
    ELSE d

\* Mutant of the sort: the urls are compared in the order they come.
SortUrlsNot(d) == d

\* validate, d.get("urls", []).sort(): a dict without urls is left as it is.
SortUrls(d) == IF "urls" \in DOMAIN d THEN SetItem(d, "urls", ListSort(d["urls"])) ELSE d

\* Mutant of validate: package_data is read before package_json_data.
ValidateCallDataFirst(package_json_data, package_data, ignore_version, ignore_deps, ignore_boot_main) ==
        IF package_data.exc # NoExc
        THEN [exc |-> package_data.exc, val |-> FALSE, aux |-> <<>>]
        ELSE IF package_json_data.exc # NoExc
        THEN [exc |-> package_json_data.exc, val |-> FALSE, aux |-> <<>>]
        ELSE LET json_popped == PopIgnored(package_json_data.val, ignore_version, ignore_deps)
                 data_popped == PopIgnored(package_data.val, ignore_version, ignore_deps)
                 json_excluded == ExcludeBootMain(json_popped, ignore_boot_main)
                 data_excluded == ExcludeBootMain(data_popped, ignore_boot_main)
             IN  [exc |-> NoExc,
                  val |-> SortUrls(json_excluded) = SortUrls(data_excluded),
                  aux |-> [json_popped |-> json_popped, data_popped |-> data_popped,
                           json_excluded |-> json_excluded,
                           data_excluded |-> data_excluded]]

\* validate, given what reading package_json_data (read first) and package_data
\* (read second) did.  aux records the two dicts as they enter the
\* ignore_boot_main step (popped) and as they leave it (excluded).
ValidateCall(package_json_data, package_data, ignore_version, ignore_deps, ignore_boot_main) ==
        IF package_json_data.exc # NoExc
        THEN [exc |-> package_json_data.exc, val |-> FALSE, aux |-> <<>>]
        ELSE IF package_data.exc # NoExc
        THEN [exc |-> package_data.exc, val |-> FALSE, aux |-> <<>>]
        ELSE LET json_popped == PopIgnored(package_json_data.val, ignore_version, ignore_deps)
                 data_popped == PopIgnored(package_data.val, ignore_version, ignore_deps)
                 json_excluded == ExcludeBootMain(json_popped, ignore_boot_main)
                 data_excluded == ExcludeBootMain(data_popped, ignore_boot_main)
             IN  [exc |-> NoExc,
                  val |-> SortUrls(json_excluded) = SortUrls(data_excluded),
                  aux |-> [json_popped |-> json_popped, data_popped |-> data_popped,
                           json_excluded |-> json_excluded,
                           data_excluded |-> data_excluded]]

\* DeepDiff(a, b), reduced to the keys under which the two dicts differ.
DeepDiff(a, b) ==
    {k \in DOMAIN a \cup DOMAIN b :
        \/ k \notin DOMAIN a
        \/ k \notin DOMAIN b
        \/ a[k] # b[k]}

\* validation_diff, given what reading package_data (read first) and
\* package_json_data (read second) did.
ValidationDiffCall(package_data, package_json_data) ==
        IF package_data.exc # NoExc THEN Raise(package_data.exc)
        ELSE IF package_json_data.exc # NoExc THEN Raise(package_json_data.exc)
        ELSE Ok(DeepDiff(package_data.val, package_json_data.val))

\* Mutant of the path choice: the package file comes before the output_path given.
ResolveOutputPathPackageFileFirst(output_path) ==
    IF package_file # None THEN package_file
    ELSE IF output_path # None THEN output_path
    ELSE PathJoin(RootDir, "package.json")

\* Mutant of the path choice: without output_path the default beside
\* pyproject.toml is taken, whether or not a package file was given.
ResolveOutputPathNoPackageFile(output_path) ==
    IF output_path = None THEN PathJoin(RootDir, "package.json") ELSE output_path

\* create, "if not output_path": the path that is opened.
ResolveOutputPath(output_path) ==
    IF output_path = None
    THEN IF package_file # None THEN package_file
         ELSE PathJoin(RootDir, "package.json")
    ELSE output_path

\* open(path, "w"): the file exists and is empty.
OpenForWriting(files, path) ==
    [files EXCEPT ![path] = [exists |-> TRUE, text |-> <<>>]]

\* Mutant of the write: the file was opened to append, so what it held stays
\* in front of the text.
WriteTextAppend(files, path, text) ==
    [files EXCEPT ![path] = [exists |-> TRUE, text |-> fs[path].text \o text]]

\* file.write(text) on a file just opened for writing
WriteText(files, path, text) ==
    [files EXCEPT ![path] = [exists |-> TRUE, text |-> text]]

\* create: the files afterwards and the exception, if any.  The file is
\* opened before package_data is read; package_data is what that read does,
\* and it reads none of the files create writes.
CreateCall(package_data, output_path, pretty) ==
    LET path == ResolveOutputPath(output_path)
        opened == OpenForWriting(fs, path)
    IN  IF package_data.exc # NoExc
        THEN [exc |-> package_data.exc, files |-> opened]
        ELSE [exc |-> NoExc,
              files |-> WriteText(opened, path, Dumps(package_data.val, KeyOrder, pretty))]

(***************************************************************************)
(* The inputs: pyproject.toml tables, source files and target manifests    *)
(***************************************************************************)

GitHubUrl == "https://github.com/a/w"
OtherUrl == "https://gitlab.com/a/w"
Dependencies == <<"urequests">>

\* [project] tables: empty, without urls, urls without Source, and complete.
ProjectTables ==
    { EmptyDict,
      [name |-> "w"],
      [name |-> "w", dependencies |-> Dependencies],
      [name |-> "w", urls |-> [Homepage |-> GitHubUrl]],
      [name |-> "w", urls |-> [Source |-> GitHubUrl]],
      [name |-> "w", dependencies |-> Dependencies, urls |-> [Source |-> GitHubUrl]],
      [name |-> "w", dependencies |-> Dependencies, urls |-> [Source |-> OtherUrl]] }

\* [tool.setuptools.dynamic] version entries: attr, attr empty, file.
VersionEntries ==
    { [attr |-> "w.version.__version__"], [attr |-> ""], [file |-> "VERSION"] }

\* Every pyproject.toml of the model: with or without [project], with or
\* without a dynamic version.
SetupDatas ==
    LET projects == {EmptyDict} \cup {[project |-> t] : t \in ProjectTables}
        tools == {EmptyDict}
                 \cup {[tool |-> [setuptools |-> [dynamic |-> [version |-> v]]]] :
                          v \in VersionEntries}
    IN  {p @@ t : p \in projects, t \in tools}

\* The source files a project directory may hold: one beside pyproject.toml
\* and three in the package directory w, the version module among them.
FilePool == <<"boot.py", "w/core.py", "w/main.py", "w/version.py">>

\* The sequences of up to MaxFiles distinct elements of pool.
Arrangements(pool) ==
    LET indices == UNION {[1..n -> 1..Len(pool)] : n \in 0..MaxFiles}
        distinct == {s \in indices : \A i, j \in DOMAIN s : i # j => s[i] # s[j]}
    IN  {[i \in DOMAIN s |-> pool[s[i]]] : s \in distinct}

\* The project directories: up to MaxFiles of the files, in every order a
\* scan of the directory may yield them.
ProjectDirs == Arrangements(FilePool)

\* The paths create can write: the package file given at construction, the
\* default beside pyproject.toml, and a path given to create.
PackageJsonPath == "/dist/package.json"
DefaultPath == "/proj/package.json"
OutputPath == "/out/package.json"
FsPaths == {PackageJsonPath, DefaultPath, OutputPath}

AbsentFile == [exists |-> FALSE, text |-> <<>>]
EmptyFile == [exists |-> TRUE, text |-> <<>>]

\* Target manifests: urls in any order over any of the files, deps and
\* version as derived or not, and manifests that lack keys.
TargetUrlLists ==
    {[i \in DOMAIN files |-> <<files[i], PathJoin("github:a/w", files[i])>>] :
        files \in Arrangements(FilePool)}

FullManifests ==
    {[urls |-> u, deps |-> dv[1], version |-> dv[2]] :
        u \in TargetUrlLists,
        dv \in {<<Dependencies, "1.2.0">>, <<(<<>>), "1.2.0">>}}

PartialManifests ==
    { EmptyDict,
      [deps |-> Dependencies, version |-> "1.2.0"],
      [urls |-> <<(<<"w/main.py", "github:a/w/w/main.py">>)>>] }

KeysOf(d, order) == SelectSeq(order, LAMBDA k : k \in DOMAIN d)

\* The target files: every manifest indented and in the key order create
\* writes, some compact and in another key order, an empty file and no file.
TargetFiles ==
    {[exists |-> TRUE, text |-> Dumps(m, KeysOf(m, KeyOrder), TRUE)] :
        m \in FullManifests \cup PartialManifests}
    \cup {[exists |-> TRUE, text |-> Dumps(m, KeysOf(m, <<"version", "deps", "urls">>), FALSE)] :
        m \in {f \in FullManifests :
                 f.version = "1.2.0" /\ f.deps = Dependencies /\ Len(f.urls) <= 1}}
    \cup {EmptyFile, AbsentFile}

\* The projects every project directory and every target file is combined with.
CoreProjects ==
    LET complete == [name |-> "w", dependencies |-> Dependencies,
                     urls |-> [Source |-> GitHubUrl]]
        attr == [setuptools |-> [dynamic |-> [version |-> [attr |-> "w.version.__version__"]]]]
    IN  { <<[project |-> complete, tool |-> attr], None>>,
          <<[project |-> complete, tool |-> attr], ChangelogFile>> }

\* The project directory and the target files every project is combined with.
BaseDir == <<"w/main.py", "w/version.py">>
BaseTargets ==
    { AbsentFile,
      [exists |-> TRUE,
       text |-> Dumps([urls |-> CreateUrlElements(BaseDir, "github:a/w"),
                       deps |-> Dependencies, version |-> "1.2.0"], KeyOrder, TRUE)] }

(***************************************************************************)
(* The state machine                                                       *)
(***************************************************************************)

\* package_json_data has not returned yet on this instance.
NotLoaded == [exc |-> "not loaded", val |-> ""]

\* package_json_data has returned on this instance.
target_read == target_loaded.exc = NoExc

\* target_loaded after a read of package_json_data that did r.
AfterRead(r) == IF ~target_read /\ r.exc = NoExc THEN r ELSE target_loaded

\* The projects, project directories and target files an instance is
\* constructed on: the core projects with every project directory or every
\* target file, every other project with the base ones.
Constructions ==
    {<<p[1], p[2], BaseDir, target>> : p \in CoreProjects, target \in TargetFiles}
    \cup {<<p[1], p[2], files, target>> :
            p \in CoreProjects, files \in ProjectDirs, target \in BaseTargets}
    \cup {<<p[1], p[2], BaseDir, target>> :
            p \in SetupDatas \X {None, ChangelogFile}, target \in BaseTargets}

\* __init__, with the files on disk at that time.
Init ==
    \E c \in Constructions, pf \in {None, PackageJsonPath} :
        /\ pf = None => c[4] = AbsentFile
        /\ setup_data = c[1]
        /\ package_changelog_file = c[2]
        /\ project_dir = c[3]
        /\ package_file = pf
        /\ fs = [p \in FsPaths |-> IF p = PackageJsonPath THEN c[4] ELSE AbsentFile]
        /\ target_loaded = NotLoaded
        /\ last = Idle

Unread == UNCHANGED <<setup_data, package_file, package_changelog_file, project_dir>>

ReadPackageVersion ==
    /\ last.op = "idle"
    /\ last' = Result("package_version", <<>>, PackageVersion)
    /\ UNCHANGED <<fs, target_loaded>> /\ Unread

ReadPackageChangelogVersion ==
    /\ last.op = "idle"
    /\ last' = Result("package_changelog_version", <<>>, PackageChangelogVersion)
    /\ UNCHANGED <<fs, target_loaded>> /\ Unread

ReadPackageDeps ==
    /\ last.op = "idle"
    /\ last' = Result("package_deps", <<>>, PackageDeps)
    /\ UNCHANGED <<fs, target_loaded>> /\ Unread

ReadPackageUrl ==
    /\ last.op = "idle"
    /\ last' = Result("package_url", <<>>, PackageUrl)
    /\ UNCHANGED <<fs, target_loaded>> /\ Unread

ReadPackageData ==
    /\ last.op = "idle"
    /\ last' = Result("package_data", <<>>, PackageData)
    /\ UNCHANGED <<fs, target_loaded>> /\ Unread

ReadPackageJsonData ==
    /\ last.op = "idle"
    /\ LET r == PackageJsonData
       IN  /\ last' = Result("package_json_data", <<>>, r)
           /\ target_loaded' = AfterRead(r)
    /\ UNCHANGED fs /\ Unread

Validate ==
    /\ last.op = "idle"
    /\ LET package_json_data == PackageJsonData
           package_data == PackageData
       IN  \E ignore_version, ignore_deps, ignore_boot_main \in BOOLEAN :
             LET r == ValidateCall(package_json_data, package_data,
                                   ignore_version, ignore_deps, ignore_boot_main)
             IN  /\ last' = [op |-> "validate",
                             arg |-> <<ignore_version, ignore_deps, ignore_boot_main>>,
                             exc |-> r.exc, val |-> r.val, aux |-> r.aux]
                 /\ target_loaded' = AfterRead(package_json_data)
    /\ UNCHANGED fs /\ Unread

ValidationDiff ==
    /\ last.op = "idle"
    /\ LET package_data == PackageData
           package_json_data == PackageJsonData
       IN  /\ last' = Result("validation_diff", <<>>,
                             ValidationDiffCall(package_data, package_json_data))
           /\ target_loaded' = (IF package_data.exc = NoExc
                                 THEN AfterRead(package_json_data) ELSE target_loaded)
    /\ UNCHANGED fs /\ Unread

Create ==
    /\ last.op = "idle"
    /\ LET package_data == PackageData
       IN  \E output_path \in {None, OutputPath}, pretty \in BOOLEAN :
             LET r == CreateCall(package_data, output_path, pretty)
             IN  /\ fs' = r.files
                 /\ last' = [op |-> "create", arg |-> <<output_path, pretty>>,
                             exc |-> r.exc, val |-> "", aux |-> <<>>]
    /\ UNCHANGED target_loaded /\ Unread

\* The caller takes the result of the call; the instance and the files stay.
Return ==
    /\ last.op # "idle"
    /\ last' = Idle
    /\ UNCHANGED <<fs, target_loaded>> /\ Unread

Next ==
    \/ ReadPackageVersion
    \/ ReadPackageChangelogVersion
    \/ ReadPackageDeps
    \/ ReadPackageUrl
    \/ ReadPackageData
    \/ ReadPackageJsonData
    \/ Validate
    \/ ValidationDiff
    \/ Create
    \/ Return

Spec == Init /\ [][Next]_vars

(***************************************************************************)
(* Properties                                                              *)
(***************************************************************************)

\* The three flags of validate, as the arg of a validate result.
Flags == BOOLEAN \X BOOLEAN \X BOOLEAN

\* Every flag set in f is set in g.
FlagsWithin(f, g) == \A i \in 1..3 : f[i] => g[i]

\* Two reads did the same: the same exception, or the same value returned.
SameRead(a, b) == a.exc = b.exc /\ (a.exc = NoExc => a.val = b.val)

\* The path create is to write, by precedence: the output_path given, else
\* the package file given at construction, else package.json beside
\* pyproject.toml.
PathByPrecedence(output_path) ==
    IF output_path # None THEN output_path
    ELSE IF package_file # None THEN package_file
    ELSE DefaultPath

\* t occurs in s.
HasInfix(s, t) == \E i \in 1..Len(s) : i + Len(t) - 1 <= Len(s) /\ SubSeq(s, i, i + Len(t) - 1) = t

\* A urls entry that ignore_boot_main is to remove.
IsBootOrMain(entry) == HasInfix(entry[1], "boot.py") \/ HasInfix(entry[1], "main.py")

\* a and b hold the same entries the same number of times.
IsPermutation(a, b) ==
    /\ Len(a) = Len(b)
    /\ \A i \in 1..Len(a) :
          Cardinality({j \in 1..Len(a) : a[j] = a[i]})
              = Cardinality({j \in 1..Len(b) : b[j] = a[i]})

\* The project declares no version source.
NoVersionSource ==
    /\ package_changelog_file = None
    /\ \/ "tool" \notin DOMAIN setup_data
       \/ "setuptools" \notin DOMAIN setup_data["tool"]
       \/ "dynamic" \notin DOMAIN setup_data["tool"]["setuptools"]
       \/ "version" \notin DOMAIN setup_data["tool"]["setuptools"]["dynamic"]

\* The project declares no urls.Source.
NoSourceUrl ==
    \/ "project" \notin DOMAIN setup_data
    \/ "urls" \notin DOMAIN setup_data["project"]
    \/ "Source" \notin DOMAIN setup_data["project"]["urls"]

\* C1: without a version source, package_version returns the sentinel
\* "-1.-1.-1", and package_data does not raise on account of the version: with
\* a source URL declared it returns a manifest whose version is the sentinel.
C1_VersionFailsSoft ==
    /\ (NoVersionSource /\ last.op = "package_version")
          => (last.exc = NoExc /\ last.val = Sentinel)
    /\ (NoVersionSource /\ ~NoSourceUrl /\ last.op = "package_data")
          => (last.exc = NoExc /\ last.val.version = Sentinel)

\* C2: without urls.Source, package_url ends with SystemExit and with nothing
\* else, and so does package_data once the version before it has been derived.
C2_MissingUrlIsFatal ==
    /\ (NoSourceUrl /\ last.op = "package_url")
          => last.exc = "SystemExit"
    /\ (NoSourceUrl /\ last.op = "package_data"
            /\ (IF package_changelog_file # None
                THEN PackageChangelogVersion ELSE PackageVersion).exc = NoExc)
          => last.exc = "SystemExit"

\* C3: a create that raises leaves every file as it was.
C3_CreateFailsAtomically ==
    [][(last'.op = "create" /\ last'.exc # NoExc) => fs' = fs]_vars

\* C4 as stated: once package_json_data has been read, a later read gives
\* what the first read gave, whatever was called in between.
C4_TargetNeverChanges ==
    target_read => SameRead(PackageJsonData, target_loaded)

\* C4 as amended: once package_json_data has been read, every operation but a
\* create that writes the package file leaves the package file, and so what a
\* later read gives, as it was; a create that writes the package file and
\* returns replaces its content by the derived manifest.
C4_TargetChangesOnlyByCreate ==
    [][target_read =>
         IF last'.op = "create" /\ PathByPrecedence(last'.arg[1]) = package_file
         THEN last'.exc = NoExc =>
                 fs'[package_file].text = Dumps(PackageData.val, KeyOrder, last'.arg[2])
         ELSE fs'[package_file] = fs[package_file]]_vars

\* C4 witness: the target was read, then create wrote another path.
C4_Witness ==
    /\ target_read
    /\ package_file # None
    /\ last.op = "create" /\ last.arg[1] = OutputPath /\ last.exc = NoExc
    /\ PackageJsonData.exc = NoExc
    /\ PackageJsonData.val # PackageData.val

\* C5 as stated: without a package file, validate and validation_diff raise
\* Setup2uPyPackageError; stated here for the projects whose derivation
\* returns or ends with the mandatory-field SystemExit.
C5_NoTargetRaisesDomainError ==
    (package_file = None /\ last.op \in {"validate", "validation_diff"}
        /\ PackageData.exc \in {NoExc, "SystemExit"})
        => last.exc = "Setup2uPyPackageError"

\* C5 as amended: without a package file, validate raises
\* Setup2uPyPackageError under every flag combination; validation_diff never
\* returns: it raises what package_data raises, and Setup2uPyPackageError when
\* package_data returns.
C5_NoTargetNeverReturns ==
    package_file = None =>
        /\ last.op = "validate" => last.exc = "Setup2uPyPackageError"
        /\ last.op = "validation_diff" =>
              LET derived == PackageData
              IN  last.exc = (IF derived.exc # NoExc THEN derived.exc
                              ELSE "Setup2uPyPackageError")

\* C5 witness: validation_diff without a package file, the derived data complete.
C5_Witness ==
    /\ package_file = None
    /\ last.op = "validation_diff"
    /\ PackageData.exc = NoExc
    /\ last.exc = "Setup2uPyPackageError"

\* C6: after create succeeds, loading the file it wrote gives package_data,
\* and validate without flags on a reconciler whose package file is that
\* file returns True.
C6_RoundTrip ==
    /\ (last.op = "create" /\ last.exc = NoExc) =>
          LET p == PathByPrecedence(last.arg[1])
              loaded == ReadJsonFile(p)
              derived == PackageData
          IN  /\ loaded.exc = NoExc
              /\ loaded.val = derived.val
              /\ ValidateCall(loaded, derived, FALSE, FALSE, FALSE).val
    /\ (last.op = "validate" /\ last.arg = <<FALSE, FALSE, FALSE>> /\ package_file # None) =>
          LET derived == PackageData
          IN  (/\ derived.exc = NoExc
               /\ \E pretty \in BOOLEAN :
                     fs[package_file] = [exists |-> TRUE,
                                         text |-> Dumps(derived.val, KeyOrder, pretty)])
                 => (last.exc = NoExc /\ last.val)

\* C6 witness: create wrote the package file without indentation, and
\* validate without flags then returned True.
C6_Witness ==
    /\ last.op = "validate" /\ last.arg = <<FALSE, FALSE, FALSE>>
    /\ last.exc = NoExc /\ last.val
    /\ Len(PackageData.val.urls) = 2
    /\ fs[package_file].text = Dumps(PackageData.val, KeyOrder, FALSE)

\* The target has the keys of a manifest, the derived version and deps, and
\* the derived urls in some order.
IsDerivedReordered(target, derived) ==
    /\ target.exc = NoExc /\ derived.exc = NoExc
    /\ DOMAIN target.val = {"urls", "deps", "version"}
    /\ target.val.version = derived.val.version
    /\ target.val.deps = derived.val.deps
    /\ IsPermutation(target.val.urls, derived.val.urls)

\* C7: when the target has the derived version and deps and its urls are a
\* permutation of the derived urls, validate returns True under every flags.
C7_ValidateIgnoresUrlsOrder ==
    last.op = "validate" =>
        LET target == PackageJsonData
            derived == PackageData
        IN  IsDerivedReordered(target, derived) => (last.exc = NoExc /\ last.val)

\* C7 witness: validate without flags returned True on urls in another order.
C7_Witness ==
    /\ last.op = "validate" /\ last.arg = <<FALSE, FALSE, FALSE>>
    /\ LET target == PackageJsonData
           derived == PackageData
       IN  /\ IsDerivedReordered(target, derived)
           /\ target.val.urls # derived.val.urls
    /\ last.val

\* What ignore_boot_main is to do to one dict: the urls without the boot.py
\* and main.py entries, the rest in place.
OnlyBootMainRemoved(before, after) ==
    /\ "urls" \in DOMAIN before
    /\ DOMAIN after = DOMAIN before
    /\ \A k \in DOMAIN before \ {"urls"} : after[k] = before[k]
    /\ after["urls"] = SelectSeq(before["urls"], LAMBDA entry : ~IsBootOrMain(entry))

\* C8 as stated: with ignore_boot_main, validate removes the boot.py and
\* main.py entries from the urls of both dicts and changes nothing else.
C8_ExcludesExactlyBootMain ==
    (last.op = "validate" /\ last.exc = NoExc /\ last.arg[3]) =>
        /\ OnlyBootMainRemoved(last.aux.json_popped, last.aux.json_excluded)
        /\ OnlyBootMainRemoved(last.aux.data_popped, last.aux.data_excluded)

\* C8 as amended: the same, except that a dict without a urls key gains an
\* empty urls list.
C8_ExcludesExactlyBootMainOrAddsUrls ==
    (last.op = "validate" /\ last.exc = NoExc /\ last.arg[3]) =>
        \A side \in {<<last.aux.json_popped, last.aux.json_excluded>>,
                     <<last.aux.data_popped, last.aux.data_excluded>>} :
            IF "urls" \in DOMAIN side[1]
            THEN OnlyBootMainRemoved(side[1], side[2])
            ELSE /\ DOMAIN side[2] = DOMAIN side[1] \cup {"urls"}
                 /\ \A k \in DOMAIN side[1] : side[2][k] = side[1][k]
                 /\ side[2]["urls"] = <<>>

\* C8 witness: validate with ignore_boot_main removed w/main.py from the
\* target and kept w/core.py, and removed w/main.py from the derived urls and
\* kept w/version.py.
C8_Witness ==
    /\ last.op = "validate" /\ last.exc = NoExc /\ last.arg[3]
    /\ "urls" \in DOMAIN last.aux.json_popped
    /\ Len(last.aux.json_popped["urls"]) = 2
    /\ Len(last.aux.json_excluded["urls"]) = 1
    /\ \E i \in 1..2 : last.aux.json_popped["urls"][i][1] = "w/main.py"
    /\ last.aux.json_excluded["urls"][1][1] = "w/core.py"
    /\ Len(last.aux.data_popped["urls"]) = 2
    /\ \E i \in 1..2 : last.aux.data_popped["urls"][i][1] = "w/main.py"
    /\ last.aux.data_excluded["urls"] = <<(<<"w/version.py", "github:a/w/w/version.py">>)>>

\* C9: create writes the path chosen by precedence and no other file, and
\* when it returns that file holds the derived manifest.
C9_CreateWritesOnePath ==
    [][last'.op = "create" =>
         LET p == PathByPrecedence(last'.arg[1])
         IN  /\ \A q \in FsPaths \ {p} : fs'[q] = fs[q]
             /\ fs'[p].exists
             /\ last'.exc = NoExc =>
                   fs'[p].text = Dumps(PackageData.val, KeyOrder, last'.arg[2])]_vars

\* C9 witness: create without output_path on an instance with a package file
\* wrote the package file and nothing else.
C9_Witness ==
    /\ last.op = "create" /\ last.arg[1] = None /\ last.exc = NoExc
    /\ package_file = PackageJsonPath
    /\ fs[PackageJsonPath].text = Dumps(PackageData.val, KeyOrder, last.arg[2])
    /\ ~fs[DefaultPath].exists
    /\ ~fs[OutputPath].exists

\* C10: when validate returns True under some flags, it returns True under
\* every superset of them.
C10_FlagsOnlyRelax ==
    (last.op = "validate" /\ last.exc = NoExc /\ last.val) =>
        LET target == PackageJsonData
            derived == PackageData
        IN  \A g \in Flags :
                FlagsWithin(last.arg, g) =>
                    ValidateCall(target, derived, g[1], g[2], g[3]).val

\* C10 witness: validate returned True with ignore_boot_main alone, on a
\* target that differs from the derived data in boot.py and main.py entries
\* only.
C10_Witness ==
    /\ last.op = "validate" /\ last.arg = <<FALSE, FALSE, TRUE>>
    /\ last.exc = NoExc /\ last.val
    /\ ~ValidateCall(PackageJsonData, PackageData, FALSE, FALSE, FALSE).val

====
